---- MODULE Spec2Model ----
(***************************************************************************)
(* Binding synthesis of the template compiler: src/compile/nodes/Binding.ts *)
(*                                                                         *)
(* Generated code fragments are strings, built by concatenation exactly as *)
(* the template literals of the source build them.  The snippet marker     *)
(* U+2702 of the source is written "%" here, module text being ASCII.      *)
(* JavaScript null and undefined are the strings "null" and "undefined",   *)
(* which is also what a template literal prints for them; no generated     *)
(* statement has either text.                                              *)
(***************************************************************************)
EXTENDS Integers, Sequences, FiniteSets, TLC

VARIABLES compiler, block, binding, result, groupCalls, pc

vars == <<compiler, block, binding, result, groupCalls, pc>>

null == "null"
undefined == "undefined"

(***************************************************************************)
(* JavaScript helpers                                                      *)
(***************************************************************************)

\* Array.prototype.indexOf: 0-based position of the first match, or -1
indexOf(arr, x) ==
    IF \E i \in 1..Len(arr) : arr[i] = x
    THEN (CHOOSE i \in 1..Len(arr) : arr[i] = x /\ \A j \in 1..(i - 1) : arr[j] # x) - 1
    ELSE -1

\* Array.prototype.filter, keeping the order; kept is the set of the elements
\* the callback accepts
filter(arr, kept) ==
    LET out[i \in 0..Len(arr)] ==
            IF i = 0 THEN <<>>
            ELSE IF arr[i] \in kept THEN Append(out[i - 1], arr[i]) ELSE out[i - 1]
    IN out[Len(arr)]

\* The elements of an array
elements(arr) == {arr[i] : i \in 1..Len(arr)}

\* Set.prototype.add on an insertion-ordered set kept as a duplicate-free sequence
setAdd(s, x) == IF \E i \in 1..Len(s) : s[i] = x THEN s ELSE Append(s, x)

RECURSIVE setAddAll(_, _)
setAddAll(s, xs) == IF xs = <<>> THEN s ELSE setAddAll(setAdd(s, Head(xs)), Tail(xs))

\* prop[0] === '$'
startsWithSigil(prop) == Len(prop) > 0 /\ Head(prop) = "$"

\* prop.slice(1)
slice1(prop) == IF Len(prop) = 0 THEN "" ELSE Tail(prop)

\* RegExp.prototype.test for an unanchored literal: s has sub as a substring
contains(s, sub) ==
    \E i \in 1..(Len(s) - Len(sub) + 1) : SubSeq(s, i, i + Len(sub) - 1) = sub

(***************************************************************************)
(* Collaborators of Binding.ts                                             *)
(***************************************************************************)

\* utils/patterns: the dimension bindings
dimensions(name) ==
    name \in {"offsetWidth", "offsetHeight", "clientWidth", "clientHeight"}

\* A static attribute value: a literal string, boolean true (an attribute
\* written without a value), or null (absent or not statically known).
strAttr(s) == [kind |-> "string", data |-> s]
trueAttr == [kind |-> "true", data |-> "true"]
nullAttr == [kind |-> "null", data |-> "null"]

\* Element.getStaticAttributeValue
getStaticAttributeValue(node, attr) == node.attributes[attr]

\* Element.isMediaNode
isMediaNode(node) == node.name = "audio" \/ node.name = "video"

\* utils/getObject: the outermost object of a reference
RECURSIVE getObject(_)
getObject(node) ==
    IF node.type = "MemberExpression" THEN getObject(node.object) ELSE node

\* utils/flattenReference(...).parts: the identifier names of a reference
RECURSIVE flattenReferenceParts(_)
flattenReferenceParts(node) ==
    IF node.type = "MemberExpression"
    THEN Append(flattenReferenceParts(node.object), node.property.name)
    ELSE <<node.name>>

\* Array.prototype.join
RECURSIVE join(_, _)
join(parts, sep) ==
    IF parts = <<>> THEN ""
    ELSE IF Len(parts) = 1 THEN parts[1]
    ELSE parts[1] \o sep \o join(Tail(parts), sep)

\* utils/getTailSnippet: the source span after the outermost object
getTailSnippet(node) ==
    "[%" \o ToString(getObject(node).end) \o "-" \o ToString(node.end) \o "%]"

\* shared/Expression: the snippet of a resolved expression is its source span
snippetOf(node) ==
    "[%" \o ToString(node.start) \o "-" \o ToString(node.end) \o "%]"

\* Block.getUniqueName: name, or name_1, name_2, ... past the names in use
RECURSIVE uniqueAlias(_, _, _)
uniqueAlias(used, name, i) ==
    LET alias == IF i = 0 THEN name ELSE name \o "_" \o ToString(i)
    IN IF alias \in used THEN uniqueAlias(used, name, i + 1) ELSE alias

getUniqueName(blk, name) == uniqueAlias(blk.usedNames, name, 0)

\* Block.getUniqueName marks the name it returns as used
useName(blk, name) == [blk EXCEPT !.usedNames = @ \cup {name}]

\* Block.addVariable
addVariable(blk, name, init) ==
    [blk EXCEPT !.variables = Append(@, [name |-> name, init |-> init])]

\* Block.bindings.get(name)
blockBindingsGet(blk, name) ==
    IF name \in DOMAIN blk.bindings THEN blk.bindings[name] ELSE undefined

(***************************************************************************)
(* Binding.ts                                                              *)
(***************************************************************************)

readOnlyMediaAttributes == {"duration", "buffered", "seekable", "played"}

\* Binding.isReadOnlyMediaAttribute
isReadOnlyMediaAttribute(this) == this.name \in readOnlyMediaAttributes

\* new Binding(compiler, parent, scope, info)
Binding(parent, scope, info) ==
    LET node == info.value.node
        name == getObject(node).name
        isMember == node.type = "MemberExpression"
        propSpan == "[%" \o ToString(node.property.start) \o "-"
                         \o ToString(node.property.end) \o "%]"
    IN [ name |-> info.name,
         value |-> info.value,
         parent |-> parent,
         isContextual |-> name \in scope.names,
         usesContext |-> IF isMember THEN TRUE ELSE name \in scope.names,
         obj |-> IF isMember
                 THEN "[%" \o ToString(node.object.start) \o "-"
                           \o ToString(node.object.end) \o "%]"
                 ELSE "ctx",
         prop |-> IF isMember
                  THEN (IF node.computed THEN propSpan ELSE "'" \o propSpan \o "'")
                  ELSE "'" \o name \o "'" ]

\* getDomUpdater without lines 154-156: read-only media attributes are written
getDomUpdaterWritesReadOnly(node, this, snippet) ==
    IF node.name = "select"
    THEN (IF getStaticAttributeValue(node, "multiple") = trueAttr
          THEN "@selectOptions(" \o node.var \o ", " \o snippet \o ")"
          ELSE "@selectOption(" \o node.var \o ", " \o snippet \o ")")
    ELSE IF this.name = "group"
    THEN LET type == getStaticAttributeValue(node, "type")
             condition == IF type = strAttr("checkbox")
                          THEN "~" \o snippet \o ".indexOf(" \o node.var \o ".__value)"
                          ELSE node.var \o ".__value === " \o snippet
         IN node.var \o ".checked = " \o condition \o ";"
    ELSE node.var \o "." \o this.name \o " = " \o snippet \o ";"

\* getDomUpdater
getDomUpdater(node, this, snippet) ==
    IF isReadOnlyMediaAttribute(this) THEN null
    ELSE IF node.name = "select"
    THEN (IF getStaticAttributeValue(node, "multiple") = trueAttr
          THEN "@selectOptions(" \o node.var \o ", " \o snippet \o ")"
          ELSE "@selectOption(" \o node.var \o ", " \o snippet \o ")")
    ELSE IF this.name = "group"
    THEN LET type == getStaticAttributeValue(node, "type")
             condition == IF type = strAttr("checkbox")
                          THEN "~" \o snippet \o ".indexOf(" \o node.var \o ".__value)"
                          ELSE node.var \o ".__value === " \o snippet
         IN node.var \o ".checked = " \o condition \o ";"
    ELSE node.var \o "." \o this.name \o " = " \o snippet \o ";"

\* getBindingGroup without the lookup: every call registers the keypath again
getBindingGroupNoLookup(comp, value) ==
    LET keypath == join(flattenReferenceParts(value), ".")
    IN [ index |-> Len(comp.bindingGroups),
         keypath |-> keypath,
         compiler |-> [comp EXCEPT !.bindingGroups = Append(@, keypath)] ]

\* getBindingGroup: the index of the keypath, registered on first use
getBindingGroup(comp, value) ==
    LET keypath == join(flattenReferenceParts(value), ".")
        index == indexOf(comp.bindingGroups, keypath)
    IN IF index = -1
       THEN [ index |-> Len(comp.bindingGroups),
              keypath |-> keypath,
              compiler |-> [comp EXCEPT !.bindingGroups = Append(@, keypath)] ]
       ELSE [ index |-> index, keypath |-> keypath, compiler |-> comp ]

\* getEventHandler, line 202: the store-subscribed dependencies, sigil removed
storeDependenciesOf(dependencies) ==
    LET stored == filter(dependencies, {prop \in elements(dependencies) : startsWithSigil(prop)})
    IN [i \in 1..Len(stored) |-> slice1(stored[i])]

\* line 203 without the filter: store dependencies stay among the local ones
localDependenciesUnfiltered(dependencies) == dependencies

\* getEventHandler, line 203: the dependencies that are local state
localDependenciesOf(dependencies) ==
    filter(dependencies, {prop \in elements(dependencies) : ~startsWithSigil(prop)})

\* getEventHandler, line 230: the dependencies that are not computed properties
settableDependencies(comp, dependencies) ==
    filter(dependencies,
           {prop \in elements(dependencies) :
                ~(\E c \in 1..Len(comp.computations) : comp.computations[c].key = prop)})

\* getEventHandler, lines 217 and 237: the local properties handed to set()
asProps(dependencies) ==
    [i \in 1..Len(dependencies) |-> dependencies[i] \o ": ctx." \o dependencies[i]]

\* getEventHandler, lines 218 and 238: the store properties handed to set()
asStoreProps(storeDependencies) ==
    [i \in 1..Len(storeDependencies) |->
        storeDependencies[i] \o ": $." \o storeDependencies[i]]

\* lines 242-251 without the store case: the name is always set as local state
bareIdentifierPropsLocalOnly(name, value) ==
    [ props |-> <<name \o ": " \o value>>, storeProps |-> <<>> ]

\* getEventHandler, lines 242-251: the one property a bare identifier sets
bareIdentifierProps(name, value) ==
    IF startsWithSigil(name)
    THEN [ props |-> <<>>, storeProps |-> <<slice1(name) \o ": " \o value>> ]
    ELSE [ props |-> <<name \o ": " \o value>>, storeProps |-> <<>> ]

\* getEventHandler
getEventHandler(this, comp, blk, name, snippet, dependencies, value) ==
    LET storeDependencies == storeDependenciesOf(dependencies)
        localDependencies == localDependenciesOf(dependencies)
    IN IF this.isContextual
       THEN LET tail == IF this.value.node.type = "MemberExpression"
                        THEN getTailSnippet(this.value.node)
                        ELSE ""
                head == blockBindingsGet(blk, name)
            IN [ usesContext |-> TRUE,
                 usesState |-> TRUE,
                 usesStore |-> Len(storeDependencies) > 0,
                 mutation |-> head \o tail \o " = " \o value \o ";",
                 props |-> asProps(localDependencies),
                 storeProps |-> asStoreProps(storeDependencies) ]
       ELSE IF this.value.node.type = "MemberExpression"
       THEN [ usesContext |-> FALSE,
              usesState |-> TRUE,
              usesStore |-> Len(storeDependencies) > 0,
              mutation |-> snippet \o " = " \o value,
              props |-> asProps(settableDependencies(comp, localDependencies)),
              storeProps |-> asStoreProps(storeDependencies) ]
       ELSE LET bare == bareIdentifierProps(name, value)
            IN [ usesContext |-> FALSE,
                 usesState |-> FALSE,
                 usesStore |-> FALSE,
                 mutation |-> null,
                 props |-> bare.props,
                 storeProps |-> bare.storeProps ]

\* getValueFromDom with the numeric-type row tried before the group row
getValueFromDomTypeFirst(comp, node, this) ==
    LET type == getStaticAttributeValue(node, "type")
        group == getBindingGroup(comp, this.value.node)
    IN IF node.name = "select"
       THEN [ value |-> IF getStaticAttributeValue(node, "multiple") = trueAttr
                        THEN "@selectMultipleValue(" \o node.var \o ")"
                        ELSE "@selectValue(" \o node.var \o ")",
              compiler |-> comp,
              calls |-> <<>> ]
       ELSE IF type = strAttr("range") \/ type = strAttr("number")
       THEN [ value |-> "@toNumber(" \o node.var \o "." \o this.name \o ")",
              compiler |-> comp,
              calls |-> <<>> ]
       ELSE IF this.name = "group"
       THEN [ value |-> IF type = strAttr("checkbox")
                        THEN "@getBindingGroupValue(#component._bindingGroups["
                                 \o ToString(group.index) \o "])"
                        ELSE node.var \o ".__value",
              compiler |-> group.compiler,
              calls |-> <<[keypath |-> group.keypath, index |-> group.index]>> ]
       ELSE IF this.name = "buffered" \/ this.name = "seekable" \/ this.name = "played"
       THEN [ value |-> "@timeRangesToArray(" \o node.var \o "." \o this.name \o ")",
              compiler |-> comp,
              calls |-> <<>> ]
       ELSE [ value |-> node.var \o "." \o this.name,
              compiler |-> comp,
              calls |-> <<>> ]

\* getValueFromDom: the read expression, and the compiler after the registry lookup
getValueFromDom(comp, node, this) ==
    LET type == getStaticAttributeValue(node, "type")
        group == getBindingGroup(comp, this.value.node)
    IN IF node.name = "select"
       THEN [ value |-> IF getStaticAttributeValue(node, "multiple") = trueAttr
                        THEN "@selectMultipleValue(" \o node.var \o ")"
                        ELSE "@selectValue(" \o node.var \o ")",
              compiler |-> comp,
              calls |-> <<>> ]
       ELSE IF this.name = "group"
       THEN [ value |-> IF type = strAttr("checkbox")
                        THEN "@getBindingGroupValue(#component._bindingGroups["
                                 \o ToString(group.index) \o "])"
                        ELSE node.var \o ".__value",
              compiler |-> group.compiler,
              calls |-> <<[keypath |-> group.keypath, index |-> group.index]>> ]
       ELSE IF type = strAttr("range") \/ type = strAttr("number")
       THEN [ value |-> "@toNumber(" \o node.var \o "." \o this.name \o ")",
              compiler |-> comp,
              calls |-> <<>> ]
       ELSE IF this.name = "buffered" \/ this.name = "seekable" \/ this.name = "played"
       THEN [ value |-> "@timeRangesToArray(" \o node.var \o "." \o this.name \o ")",
              compiler |-> comp,
              calls |-> <<>> ]
       ELSE [ value |-> node.var \o "." \o this.name,
              compiler |-> comp,
              calls |-> <<>> ]

\* /radio|checkbox|range|color/.test(value), the value converted to a string
lockExemptType(attr) ==
    \/ contains(attr.data, "radio")
    \/ contains(attr.data, "checkbox")
    \/ contains(attr.data, "range")
    \/ contains(attr.data, "color")

\* line 63 with color missing from the exempt types
needsLockNoColor(node) ==
    LET type == getStaticAttributeValue(node, "type")
    IN node.name # "input"
         \/ ~(contains(type.data, "radio") \/ contains(type.data, "checkbox")
                \/ contains(type.data, "range"))

\* munge, line 63
needsLock(node) ==
    node.name # "input" \/ ~lockExemptType(getStaticAttributeValue(node, "type"))

\* munge, lines 64-67
isReadOnly(this) ==
    \/ (isMediaNode(this.parent) /\ this.name \in readOnlyMediaAttributes)
    \/ dimensions(this.name)

\* lines 79-87 without the copy: the target's own set is the one extended
expandDependenciesInPlace(this, comp) ==
    LET indirect[i \in 0..Len(this.value.dependencies)] ==
            IF i = 0 THEN this.value.dependencies
            ELSE LET prop == this.value.dependencies[i]
                 IN IF prop \in DOMAIN comp.indirectDependencies
                    THEN setAddAll(indirect[i - 1], comp.indirectDependencies[prop])
                    ELSE indirect[i - 1]
    IN [ dependencies |-> indirect[Len(this.value.dependencies)],
         valueDependencies |-> indirect[Len(this.value.dependencies)] ]

\* munge, lines 79-87: the dependencies of the target and their indirect
\* dependents, with the target's own dependency set as the loop leaves it
expandDependencies(this, comp) ==
    LET indirect[i \in 0..Len(this.value.dependencies)] ==
            IF i = 0 THEN this.value.dependencies
            ELSE LET prop == this.value.dependencies[i]
                 IN IF prop \in DOMAIN comp.indirectDependencies
                    THEN setAddAll(indirect[i - 1], comp.indirectDependencies[prop])
                    ELSE indirect[i - 1]
    IN [ dependencies |-> indirect[Len(this.value.dependencies)],
         valueDependencies |-> this.value.dependencies ]

\* lines 98-108 without the deregistration on destroy
registerGroupHydrateOnly(this, comp, blk) ==
    LET node == this.parent
        group == getBindingGroup(comp, this.value.node)
        slot == "#component._bindingGroups[" \o ToString(group.index) \o "]"
    IN IF this.name = "group"
       THEN [ compiler |-> group.compiler,
              block |-> [blk EXCEPT
                  !.hydrate = Append(@, slot \o ".push(" \o node.var \o ");")],
              calls |-> <<[keypath |-> group.keypath, index |-> group.index]>> ]
       ELSE [ compiler |-> comp, block |-> blk, calls |-> <<>> ]

\* munge, lines 98-108: the registration lines of a group binding
registerGroup(this, comp, blk) ==
    LET node == this.parent
        group == getBindingGroup(comp, this.value.node)
        slot == "#component._bindingGroups[" \o ToString(group.index) \o "]"
    IN IF this.name = "group"
       THEN [ compiler |-> group.compiler,
              block |-> [blk EXCEPT
                  !.hydrate = Append(@, slot \o ".push(" \o node.var \o ");"),
                  !.destroy = Append(@, slot \o ".splice(" \o slot \o ".indexOf("
                                            \o node.var \o "), 1);")],
              calls |-> <<[keypath |-> group.keypath, index |-> group.index]>> ]
       ELSE [ compiler |-> comp, block |-> blk, calls |-> <<>> ]

\* munge, lines 110-114: currentTime and volume are written only when not NaN
applyTimeGuard(this, snippet, u) ==
    IF this.name = "currentTime" \/ this.name = "volume"
    THEN [u EXCEPT !.updateCondition = "!isNaN(" \o snippet \o ")",
                   !.initialUpdate = IF this.name = "currentTime" THEN null ELSE @]
    ELSE u

\* lines 116-124 without line 123: the initial write is kept
applyPausedKeepInitial(this, snippet, u) ==
    IF this.name = "paused"
    THEN LET node == this.parent
             last == getUniqueName(u.block, node.var \o "_is_paused")
         IN [u EXCEPT
                !.block = addVariable(useName(u.block, last), last, "true"),
                !.updateCondition = last \o " !== (" \o last \o " = " \o snippet \o ")",
                !.updateDom = node.var \o "[" \o last \o " ? \"pause\" : \"play\"]();"]
    ELSE u

\* munge, lines 116-124: paused is written by calling play or pause
applyPaused(this, snippet, u) ==
    IF this.name = "paused"
    THEN LET node == this.parent
             last == getUniqueName(u.block, node.var \o "_is_paused")
         IN [u EXCEPT
                !.block = addVariable(useName(u.block, last), last, "true"),
                !.updateCondition = last \o " !== (" \o last \o " = " \o snippet \o ")",
                !.updateDom = node.var \o "[" \o last \o " ? \"pause\" : \"play\"]();",
                !.initialUpdate = null]
    ELSE u

\* munge, lines 126-130: dimension bindings are never written
applyDimensions(this, u) ==
    IF dimensions(this.name)
    THEN [u EXCEPT !.initialUpdate = null, !.updateDom = null]
    ELSE u

\* Binding.munge: the returned bundle, with the compiler, the block and the
\* directive as the call leaves them
munge(this, comp, blk) ==
    LET node == this.parent
        name == getObject(this.value.node).name
        snippet == this.value.snippet
        expanded == expandDependencies(this, comp)
        valueFromDom == getValueFromDom(comp, node, this)
        handler == getEventHandler(this, valueFromDom.compiler, blk, name, snippet,
                                   expanded.dependencies, valueFromDom.value)
        domUpdater == getDomUpdater(node, this, snippet)
        registered == registerGroup(this, valueFromDom.compiler, blk)
        special ==
            applyDimensions(this,
                applyPaused(this, snippet,
                    applyTimeGuard(this, snippet,
                        [ updateCondition |-> undefined,
                          updateDom |-> domUpdater,
                          initialUpdate |-> domUpdater,
                          block |-> registered.block ])))
    IN [ return |-> [ name |-> this.name,
                      object |-> name,
                      handler |-> handler,
                      updateDom |-> special.updateDom,
                      initialUpdate |-> special.initialUpdate,
                      needsLock |-> ~isReadOnly(this) /\ needsLock(node),
                      updateCondition |-> special.updateCondition,
                      isReadOnlyMediaAttribute |-> isReadOnlyMediaAttribute(this) ],
         isReadOnly |-> isReadOnly(this),
         valueFromDom |-> valueFromDom.value,
         dependencies |-> expanded.dependencies,
         this |-> [this EXCEPT !.value.dependencies = expanded.valueDependencies],
         compiler |-> registered.compiler,
         block |-> special.block,
         calls |-> valueFromDom.calls \o registered.calls ]

(***************************************************************************)
(* Inputs: the directives, host elements and scopes a template supplies    *)
(***************************************************************************)

\* The synthesized lines and variables one block may hold
MaxMunge == 2
\* The same, where only group bindings are synthesized
MaxGroupMunge == 3
\* The dependencies of one target expression
MaxDeps == 2

Identifier(name, start) ==
    [type |-> "Identifier", name |-> name, start |-> start, end |-> start + Len(name)]

MemberExpression(object, property) ==
    [type |-> "MemberExpression", object |-> object, property |-> property,
     computed |-> FALSE, start |-> object.start, end |-> property.end]

\* a.b written at offset start
Member2(a, b, start) ==
    MemberExpression(Identifier(a, start), Identifier(b, start + Len(a) + 1))

\* shared/Expression: a resolved target with its dependency set
Expression(node, dependencies) ==
    [node |-> node, dependencies |-> dependencies, snippet |-> snippetOf(node)]

Element(name, var, type, multiple) ==
    [name |-> name, var |-> var, attributes |-> [type |-> type, multiple |-> multiple]]

\* Duplicate-free sequences over S, from one to n long
OrderedSets(S, n) ==
    {q \in UNION {[1..k -> S] : k \in 1..n} : \A i, j \in 1..Len(q) : i # j => q[i] # q[j]}

BindingNames ==
    {"value", "group", "currentTime", "volume", "paused", "duration", "buffered",
     "seekable", "played", "offsetWidth", "clientHeight"}

Elements ==
    { Element("input", "input", strAttr("text"), nullAttr),
      Element("input", "input_1", strAttr("checkbox"), nullAttr),
      Element("input", "input_2", strAttr("radio"), nullAttr),
      Element("input", "input_3", strAttr("range"), nullAttr),
      Element("input", "input_4", strAttr("number"), nullAttr),
      Element("input", "input_5", strAttr("color"), nullAttr),
      Element("input", "input_6", nullAttr, nullAttr),
      Element("select", "select", nullAttr, trueAttr),
      Element("select", "select_1", nullAttr, nullAttr),
      Element("audio", "audio", nullAttr, nullAttr),
      Element("div", "div", nullAttr, nullAttr) }

GroupElements ==
    { Element("input", "input", strAttr("checkbox"), nullAttr),
      Element("input", "input_1", strAttr("checkbox"), nullAttr),
      Element("input", "input_2", strAttr("radio"), nullAttr),
      Element("select", "select", nullAttr, nullAttr) }

GroupTargets ==
    { Identifier("a", 0),
      Member2("a", "b", 0),
      MemberExpression(Member2("a", "b", 7), Identifier("c", 11)) }

Targets ==
    { Identifier("a", 0), Identifier("$a", 0), Member2("a", "b", 0),
      Identifier("item", 0), Member2("item", "b", 0) }

DependencyNames == {"a", "$a", "c"}

Scopes == { [names |-> {}], [names |-> {"item"}] }

\* compiler.computations: the computed properties of the component
Computations ==
    { <<>>, <<[key |-> "c"]>>, <<[key |-> "a"], [key |-> "c"]>> }

\* compiler.indirectDependencies: Map from a name to the names it selects into
IndirectDependencies ==
    { [n \in {} |-> <<>>],
      [n \in {"a"} |-> <<"c">>],
      [n \in {"a", "c"} |-> IF n = "a" THEN <<"b", "$s">> ELSE <<"a">>] }

\* Block.bindings: the head of each contextual name
BlockBindings == [n \in {"item"} |-> "ctx.each_value[ctx.item_index]"]

(***************************************************************************)
(* The state machine: directives are constructed, then synthesized         *)
(***************************************************************************)

InitWith(computationsChoices, indirectChoices) ==
    /\ compiler \in { [bindingGroups |-> <<>>, computations |-> c, indirectDependencies |-> d] :
                        c \in computationsChoices, d \in indirectChoices }
    /\ block = [hydrate |-> <<>>, destroy |-> <<>>, variables |-> <<>>,
                usedNames |-> {}, bindings |-> BlockBindings]
    /\ binding = null
    /\ result = null
    /\ groupCalls = <<>>
    /\ pc = "start"

\* new Binding(compiler, parent, scope, info)
Construct(parents, scopes, names, expressions, bound) ==
    /\ pc \in {"start", "munged"}
    /\ Len(block.hydrate) + Len(block.variables) < bound
    /\ \E parent \in parents, scope \in scopes, name \in names, value \in expressions :
           binding' = Binding(parent, scope, [name |-> name, value |-> value])
    /\ result' = null
    /\ pc' = "constructed"
    /\ UNCHANGED <<compiler, block, groupCalls>>

\* binding.munge(block)
Munge ==
    /\ pc = "constructed"
    /\ LET m == munge(binding, compiler, block)
       IN /\ result' = [ return |-> m.return, isReadOnly |-> m.isReadOnly,
                         valueFromDom |-> m.valueFromDom,
                         dependencies |-> m.dependencies ]
          /\ binding' = m.this
          /\ compiler' = m.compiler
          /\ block' = m.block
          /\ groupCalls' = groupCalls \o m.calls
    /\ pc' = "munged"

TopLevelScopes == { [names |-> {}] }

\* Every binding name on every host element, one target
DomExpressions == { Expression(Member2("a", "b", 0), <<"a">>) }

ConstructDom == Construct(Elements, TopLevelScopes, BindingNames, DomExpressions, MaxMunge)

\* Every target, scope and dependency set, on one text input
HandlerElements == { Element("input", "input", strAttr("text"), nullAttr) }
HandlerNames == { "value" }
HandlerExpressions ==
    { Expression(t, d) : t \in Targets, d \in OrderedSets(DependencyNames, MaxDeps) }

ConstructHandler ==
    Construct(HandlerElements, Scopes, HandlerNames, HandlerExpressions, MaxMunge)

\* Group bindings and value bindings on grouped controls
GroupNames == { "group", "value" }
GroupExpressions == { Expression(t, <<"a">>) : t \in GroupTargets }

ConstructGroup ==
    Construct(GroupElements, TopLevelScopes, GroupNames, GroupExpressions, MaxGroupMunge)

NoComputations == { <<>> }
NoIndirectDependencies == { [n \in {} |-> <<>>] }

Init == InitWith(NoComputations, NoIndirectDependencies)
Next == ConstructDom \/ Munge
Spec == Init /\ [][Next]_vars

InitHandler == InitWith(Computations, IndirectDependencies)
NextHandler == ConstructHandler \/ Munge
SpecHandler == InitHandler /\ [][NextHandler]_vars

NextGroup == ConstructGroup \/ Munge
SpecGroup == Init /\ [][NextGroup]_vars

(***************************************************************************)
(* Properties                                                              *)
(***************************************************************************)

Range(q) == {q[i] : i \in 1..Len(q)}

ExemptTypes == {"radio", "checkbox", "range", "color"}
ReadOnlyMediaNames == {"duration", "buffered", "seekable", "played"}
DimensionNames == {"offsetWidth", "offsetHeight", "clientWidth", "clientHeight"}

\* The keypath of the directive's target, as the registry sees it
KeypathOf(b) == join(flattenReferenceParts(b.value.node), ".")

GroupSlot(k) == "#component._bindingGroups[" \o ToString(k) \o "]"

\* C1: over any sequence of getBindingGroup calls from an empty registry, a
\* keypath seen before gets the index it got before, a keypath not seen before
\* gets the number of distinct keypaths seen so far, different keypaths have
\* different indices, every returned index still names its keypath in the
\* registry, and the registry holds no keypath twice.
C1_GroupIndexFirstSeenOrder ==
    /\ \A i, j \in 1..Len(compiler.bindingGroups) :
           i # j => compiler.bindingGroups[i] # compiler.bindingGroups[j]
    /\ \A i \in 1..Len(groupCalls) :
           LET earlier == {groupCalls[j].keypath : j \in 1..(i - 1)}
           IN /\ groupCalls[i].keypath \notin earlier
                    => groupCalls[i].index = Cardinality(earlier)
              /\ \A j \in 1..(i - 1) :
                    (groupCalls[j].keypath = groupCalls[i].keypath)
                        <=> (groupCalls[j].index = groupCalls[i].index)
              /\ groupCalls[i].index + 1 \in 1..Len(compiler.bindingGroups)
              /\ compiler.bindingGroups[groupCalls[i].index + 1] = groupCalls[i].keypath

\* The first keypath is looked up again after a second one was registered
C1_Witness ==
    \E i, j, k \in 1..Len(groupCalls) :
        /\ i < j /\ j < k
        /\ groupCalls[i].index = 0
        /\ groupCalls[j].index = 1
        /\ groupCalls[k].index = 0
        /\ groupCalls[k].keypath = groupCalls[i].keypath
        /\ groupCalls[j].keypath # groupCalls[i].keypath

\* C2 as stated: the returned needsLock is false exactly for an input whose
\* static type is radio, checkbox, range or color, whatever the binding name.
C2_NeedsLockByInputTypeOnly ==
    pc = "munged" =>
        (result.return.needsLock <=>
            ~(/\ binding.parent.name = "input"
              /\ binding.parent.attributes.type \in {strAttr(t) : t \in ExemptTypes}))

\* C2 as amended: the returned needsLock is false exactly when the host is an
\* input whose static type contains radio, checkbox, range or color, or the
\* binding is read-only: a read-only media attribute on an audio or video
\* element, or a dimension binding.
C2_NeedsLockUnlessExemptOrReadOnly ==
    pc = "munged" =>
        (result.return.needsLock <=>
            ~(\/ /\ binding.parent.name = "input"
                 /\ \E t \in ExemptTypes : contains(binding.parent.attributes.type.data, t)
              \/ /\ binding.parent.name \in {"audio", "video"}
                 /\ binding.name \in ReadOnlyMediaNames
              \/ binding.name \in DimensionNames))

\* A read-only media binding on an audio element has been given no lock
C2_Witness ==
    /\ pc = "munged"
    /\ binding.name = "duration"
    /\ binding.parent.name = "audio"
    /\ ~result.return.needsLock

\* C3 as stated: a read-only media name or a dimension binding, on any host,
\* makes isReadOnly true and updateDom absent, and isReadOnly always agrees
\* with the absence of updateDom.
C3_ReadOnlyAgreesWithNoWrite ==
    pc = "munged" =>
        /\ (binding.name \in ReadOnlyMediaNames \cup DimensionNames)
               => (result.isReadOnly /\ result.return.updateDom = null)
        /\ result.isReadOnly <=> (result.return.updateDom = null)

\* C3 as amended: a read-only media name on an audio or video host, or a
\* dimension binding on any host, makes isReadOnly true and updateDom absent;
\* a read-only media name on any other host leaves isReadOnly false though
\* updateDom is absent; for every other directive isReadOnly is false and
\* updateDom is present.
C3_ReadOnlyOnMediaHosts ==
    pc = "munged" =>
        LET media == binding.parent.name \in {"audio", "video"}
        IN IF (binding.name \in ReadOnlyMediaNames /\ media)
                  \/ binding.name \in DimensionNames
           THEN result.isReadOnly /\ result.return.updateDom = null
           ELSE IF binding.name \in ReadOnlyMediaNames
           THEN ~result.isReadOnly /\ result.return.updateDom = null
           ELSE ~result.isReadOnly /\ result.return.updateDom # null

\* buffered on an audio element: read-only, converted on read, never written
C3_Witness ==
    /\ pc = "munged"
    /\ binding.name = "buffered"
    /\ binding.parent.name = "audio"
    /\ result.isReadOnly
    /\ result.return.updateDom = null
    /\ result.valueFromDom = "@timeRangesToArray(audio.buffered)"

\* C5: currentTime and dimension bindings return no initialUpdate; paused
\* returns the play/pause call on a fresh last-paused variable declared true,
\* guarded by the old-vs-new comparison on it, never the plain assignment,
\* and no initialUpdate.
C5_NoInitialWriteAndGuardedPause ==
    pc = "munged" =>
        /\ (binding.name = "currentTime" \/ binding.name \in DimensionNames)
               => result.return.initialUpdate = null
        /\ binding.name = "paused" =>
               /\ Len(block.variables) > 0
               /\ LET last == block.variables[Len(block.variables)].name
                      var == binding.parent.var
                  IN /\ block.variables[Len(block.variables)].init = "true"
                     /\ \A i \in 1..(Len(block.variables) - 1) :
                            block.variables[i].name # last
                     /\ result.return.updateDom
                            = var \o "[" \o last \o " ? \"pause\" : \"play\"]();"
                     /\ result.return.updateDom
                            # var \o ".paused = " \o binding.value.snippet \o ";"
                     /\ result.return.updateCondition
                            = last \o " !== (" \o last \o " = "
                                   \o binding.value.snippet \o ")"
                     /\ result.return.initialUpdate = null

\* paused has been synthesized twice on the same audio element
C5_Witness ==
    /\ pc = "munged"
    /\ binding.name = "paused"
    /\ Len(block.variables) = 2
    /\ block.variables[2].name = "audio_is_paused_1"
    /\ result.return.initialUpdate = null

\* C10: the read expression is the first matching row of: select element,
\* binding name group, type range or number, a time-range media name, and the
\* named property.
C10_ReaderFirstMatchWins ==
    pc = "munged" =>
        LET node == binding.parent
            type == node.attributes.type
            read == result.valueFromDom
        IN IF node.name = "select"
           THEN read = IF node.attributes.multiple = trueAttr
                       THEN "@selectMultipleValue(" \o node.var \o ")"
                       ELSE "@selectValue(" \o node.var \o ")"
           ELSE IF binding.name = "group"
           THEN IF type = strAttr("checkbox")
                THEN \E k \in 1..Len(compiler.bindingGroups) :
                        /\ compiler.bindingGroups[k] = KeypathOf(binding)
                        /\ read = "@getBindingGroupValue(" \o GroupSlot(k - 1) \o ")"
                ELSE read = node.var \o ".__value"
           ELSE IF type = strAttr("range") \/ type = strAttr("number")
           THEN read = "@toNumber(" \o node.var \o "." \o binding.name \o ")"
           ELSE IF binding.name \in {"buffered", "seekable", "played"}
           THEN read = "@timeRangesToArray(" \o node.var \o "." \o binding.name \o ")"
           ELSE read = node.var \o "." \o binding.name

\* group on a range input: the group row and the numeric row both match
C10_Witness ==
    /\ pc = "munged"
    /\ binding.name = "group"
    /\ binding.parent.attributes.type = strAttr("range")
    /\ result.valueFromDom = binding.parent.var \o ".__value"

AsProp(name) == name \o ": ctx." \o name
AsStoreProp(name) == name \o ": $." \o name

ComputedNames == {compiler.computations[i].key : i \in 1..Len(compiler.computations)}

IsMemberTarget(b) == b.value.node.type = "MemberExpression"

\* C4: for every member-expression target, props has no entry for a computed
\* name.
C4_MemberPropsExcludeComputed ==
    (pc = "munged" /\ IsMemberTarget(binding)) =>
        \A i \in 1..Len(result.return.handler.props) :
            \A c \in ComputedNames : result.return.handler.props[i] # AsProp(c)

\* C7 as stated: props and storeProps are both non-empty only for a contextual
\* or member-expression target; a bare-identifier target has no mutation and
\* exactly one entry, in storeProps when the name is store-prefixed and in
\* props otherwise, the other list being empty.
C7_BareIdentifierSetsOneProp ==
    pc = "munged" =>
        LET handler == result.return.handler
            node == binding.value.node
        IN /\ (Len(handler.props) > 0 /\ Len(handler.storeProps) > 0)
                  => (binding.isContextual \/ IsMemberTarget(binding))
           /\ node.type = "Identifier" =>
                  /\ handler.mutation = null
                  /\ IF startsWithSigil(node.name)
                     THEN Len(handler.storeProps) = 1 /\ handler.props = <<>>
                     ELSE Len(handler.props) = 1 /\ handler.storeProps = <<>>

\* C7 as amended: the same, the second part for a bare-identifier target that
\* is not contextual.
C7_PlainBareIdentifierSetsOneProp ==
    pc = "munged" =>
        LET handler == result.return.handler
            node == binding.value.node
        IN /\ (Len(handler.props) > 0 /\ Len(handler.storeProps) > 0)
                  => (binding.isContextual \/ IsMemberTarget(binding))
           /\ (node.type = "Identifier" /\ ~binding.isContextual) =>
                  /\ handler.mutation = null
                  /\ IF startsWithSigil(node.name)
                     THEN Len(handler.storeProps) = 1 /\ handler.props = <<>>
                     ELSE Len(handler.props) = 1 /\ handler.storeProps = <<>>

\* A store-prefixed bare identifier with local and store dependencies
C7_Witness ==
    /\ pc = "munged"
    /\ binding.value.node.type = "Identifier"
    /\ binding.value.node.name = "$a"
    /\ "a" \in Range(result.dependencies)
    /\ "$a" \in Range(result.dependencies)
    /\ result.return.handler.storeProps = <<"a: input.value">>
    /\ result.return.handler.props = <<>>

\* C8: for a contextual or member-expression target, every store-prefixed
\* dependency has its entry in storeProps under the name without the sigil
\* and none in props, storeProps holds nothing but those entries, one each,
\* props holds nothing but entries of dependencies without the sigil, and no
\* entry is in both lists.
C8_StoreDependenciesKeptApart ==
    (pc = "munged" /\ (binding.isContextual \/ IsMemberTarget(binding))) =>
        LET deps == result.dependencies
            props == result.return.handler.props
            storeProps == result.return.handler.storeProps
            storeDeps == {i \in 1..Len(deps) : startsWithSigil(deps[i])}
        IN /\ \A i \in storeDeps :
                  /\ AsStoreProp(slice1(deps[i])) \in Range(storeProps)
                  /\ AsProp(deps[i]) \notin Range(props)
           /\ Len(storeProps) = Cardinality(storeDeps)
           /\ \A j \in 1..Len(storeProps) :
                  \E i \in storeDeps : storeProps[j] = AsStoreProp(slice1(deps[i]))
           /\ \A j \in 1..Len(props) :
                  \E i \in (1..Len(deps)) \ storeDeps : props[j] = AsProp(deps[i])
           /\ Range(props) \cap Range(storeProps) = {}

\* A contextual target depending on the store value $a and the local value a
C8_Witness ==
    /\ pc = "munged"
    /\ binding.isContextual
    /\ result.dependencies = <<"$a", "a">>
    /\ result.return.handler.props = <<"a: ctx.a">>
    /\ result.return.handler.storeProps = <<"a: $.a">>

\* C9: the dependency set given to the event handler builder is the target's
\* dependencies together with the indirect dependents registered for each of
\* them, and nothing else; the target's own dependency set is unchanged.
C9_DependenciesExpandedOneLevel ==
    [][(pc = "constructed" /\ pc' = "munged") =>
          LET base == binding.value.dependencies
              indirect == compiler.indirectDependencies
          IN /\ Range(result'.dependencies)
                    = Range(base) \cup
                      UNION {Range(indirect[d]) : d \in Range(base) \cap DOMAIN indirect}
             /\ binding'.value.dependencies = base]_vars

\* c selects into a, and a into b and $s: a target depending on c gets a only
C9_Witness ==
    /\ pc = "munged"
    /\ DOMAIN compiler.indirectDependencies = {"a", "c"}
    /\ binding.value.dependencies = <<"c">>
    /\ result.dependencies = <<"c", "a">>

\* C6: munging a group directive appends one registration line to hydrate and
\* one deregistration line to destroy, both for the registry index of the
\* directive's keypath and for its own node, and a group-membership read in
\* the same munge uses that index.
C6_GroupRegistersOncePerNode ==
    [][(pc = "constructed" /\ pc' = "munged" /\ binding.name = "group") =>
          \E k \in 1..Len(compiler'.bindingGroups) :
              /\ compiler'.bindingGroups[k] = KeypathOf(binding)
              /\ block'.hydrate = Append(block.hydrate,
                     GroupSlot(k - 1) \o ".push(" \o binding.parent.var \o ");")
              /\ block'.destroy = Append(block.destroy,
                     GroupSlot(k - 1) \o ".splice(" \o GroupSlot(k - 1) \o ".indexOf("
                         \o binding.parent.var \o "), 1);")
              /\ \A n \in 0..Len(compiler'.bindingGroups) :
                     result'.valueFromDom = "@getBindingGroupValue(" \o GroupSlot(n) \o ")"
                         => n = k - 1]_vars

\* Two checkboxes bound to the second registered keypath, each with its lines
C6_Witness ==
    /\ pc = "munged"
    /\ Len(compiler.bindingGroups) = 2
    /\ Len(block.hydrate) = 3
    /\ block.hydrate[2] = "#component._bindingGroups[1].push(input);"
    /\ block.hydrate[3] = "#component._bindingGroups[1].push(input_1);"
    /\ block.destroy[3] = "#component._bindingGroups[1].splice(#component._bindingGroups[1].indexOf(input_1), 1);"
    /\ result.valueFromDom = "@getBindingGroupValue(#component._bindingGroups[1])"

====
